---- MODULE Spec2Model ----
(***************************************************************************)
(* Model of package connect (src/connect/connect.go): the two framing      *)
(* readers ReceiveStartupMessage and Receive over a net.Conn byte stream,  *)
(* and Connect with its SSL negotiation.                                   *)
(*                                                                         *)
(* A connection is the sequence of inbound bytes not yet read (stream),    *)
(* whether the peer has closed its side (peerClosed: end of file once the  *)
(* stream is drained) and whether the local side called Close (connClosed).*)
(* Every conn.Read call is one step, so a reader is interleaved with the   *)
(* peer and sees short reads.  Go's int is taken as 64 bits wide, so       *)
(* int(uint32) - 4 never wraps.                                            *)
(***************************************************************************)
EXTENDS Integers, Sequences, FiniteSets, TLC

VARIABLES stream, peerClosed, connClosed, pc, header, payload, n, callIn,
          results, sslEnable, dialed, sent, response, upgrade, cret, trace,
          after

\* the connection
connVars == <<stream, peerClosed, connClosed>>

\* a framing call in progress and the calls returned so far
frameVars == <<header, payload, n, callIn, results>>

\* Connect: configuration, progress and result
connectVars == <<sslEnable, dialed, sent, response, upgrade, cret, trace, after>>

vars == <<connVars, pc, frameVars, connectVars>>

\* ---- bounds ----
MaxPayload == 2
MaxMsgs == 2
MaxResp == 2

\* calls made on one connection
MaxCalls == MaxMsgs + 1

\* ---- helpers on byte sequences ----
Min(a, b) == IF a < b THEN a ELSE b

Take(s, k) == SubSeq(s, 1, k)

Drop(s, k) == SubSeq(s, k + 1, Len(s))

RECURSIVE Concat(_)
Concat(ss) == IF ss = <<>> THEN <<>> ELSE Head(ss) \o Concat(Tail(ss))

\* binary.BigEndian.Uint32(b[0:4])
Uint32(b) == b[1] * 16777216 + b[2] * 65536 + b[3] * 256 + b[4]

\* the big-endian encoding of a 32-bit length (the peer's side of the wire)
PutUint32(v) ==
    <<(v \div 16777216) % 256, (v \div 65536) % 256, (v \div 256) % 256, v % 256>>

\* ---- what the peer may put on the wire ----
PayloadOf(k) == [i \in 1..k |-> 16 * i + 1]

\* the type byte of a regular message: 'X' with no payload, 'Q' with one
TypeOf(k) == IF k = 0 THEN 88 ELSE 81

\* [4: length][length-4: payload], length counts itself
StartupMessage(p) == PutUint32(Len(p) + 4) \o p

\* [1: type][4: length][length-4: payload], length counts itself, not the type
RegularMessage(t, p) == <<t>> \o PutUint32(Len(p) + 4) \o p

\* the peer sends messages with no payload and messages with a full one
PayloadLens == {0, MaxPayload}

StartupMsgs == {StartupMessage(PayloadOf(k)) : k \in PayloadLens}

RegularMsgs == {RegularMessage(TypeOf(k), PayloadOf(k)) : k \in PayloadLens}

\* headers whose length field is below 4
MalformedMsgs == {PutUint32(l) : l \in 0..3} \cup {<<81>> \o PutUint32(l) : l \in 0..3}

RegularLists == UNION {[1..k -> RegularMsgs] : k \in 0..MaxMsgs}

\* a connection's inbound bytes: at most one startup message, then regular
\* messages, then possibly a malformed header; the peer may stop anywhere
Wires ==
    {s \o Concat(r) \o t : s \in StartupMsgs \cup {<<>>}, r \in RegularLists,
                           t \in MalformedMsgs \cup {<<>>}}

Streams == UNION {{Take(w, cut) : cut \in 0..Len(w)} : w \in Wires}

\* ---- net.Conn and io.ReadFull ----

\* faulty variant: a Read does not notice that the connection was closed
ConnRead_IgnoresClose(want) ==
    IF stream # <<>>
    THEN {[nn |-> k, err |-> "nil"] : k \in 1..Min(want, Len(stream))}
    ELSE IF peerClosed THEN {[nn |-> 0, err |-> "EOF"]} ELSE {}

\* One conn.Read(buf) with len(buf) = want > 0: the possible (nn, err).  A closed
\* connection fails; otherwise some of the arrived bytes, at least one and at most
\* len(buf); at end of stream io.EOF once the peer has closed; no outcome (the call
\* blocks) while the peer is silent.
ConnRead(want) ==
    IF connClosed THEN {[nn |-> 0, err |-> "closed"]}
    ELSE IF stream # <<>>
         THEN {[nn |-> k, err |-> "nil"] : k \in 1..Min(want, Len(stream))}
         ELSE IF peerClosed THEN {[nn |-> 0, err |-> "EOF"]} ELSE {}

\* io.ReadFull's error for a read that stopped after got bytes
ReadFullErr(got, err) ==
    IF err = "EOF" /\ got > 0 THEN "ErrUnexpectedEOF" ELSE err

\* Connect has not returned
NoReturn == [conn |-> "nil", err |-> "none"]

\* ---- ReceiveStartupMessage and Receive ----

\* faulty variant: the length field taken one byte short of what it counts
StartupPayloadLen_OffByOne(h) == Uint32(h) - 3

\* n := int(binary.BigEndian.Uint32(header[:])) - 4
StartupPayloadLen(h) == Uint32(h) - 4

\* faulty variant: the length decoded from header[0:4], the type byte included
ReceivePayloadLen_FromTypeByte(h) == Uint32(SubSeq(h, 1, 4)) - 4

\* faulty variant: the length field taken to count the type byte as well
ReceivePayloadLen_CountsTypeByte(h) == Uint32(SubSeq(h, 2, 5)) - 5

\* n := int(binary.BigEndian.Uint32(header[1:5])) - 4
ReceivePayloadLen(h) == Uint32(SubSeq(h, 2, 5)) - 4

\* the count ReceiveStartupMessage returns with an error: return nil, 0, err
StartupErrCount(got) == 0

\* the count Receive returns when the header read fails: return nil, 0, err
ReceiveHeaderErrCount(got) == 0

\* faulty variant: the partial count dropped, as on the header path
ReceivePayloadErrCount_Discarded(got) == 0

\* the count Receive returns when the payload read fails: return nil, n, err
ReceivePayloadErrCount(got) == got

\* faulty variant: an empty payload buffer is still read from the connection
ReadFullReturnsAtOnce_Never(want) == FALSE

\* io.ReadFull(connection, payload) with len(payload) = want returns (0, nil)
\* at once, without a conn.Read, exactly when the payload buffer is empty
ReadFullReturnsAtOnce(want) == want = 0

\* buffer.Bytes(), buffer.Len() after buffer.Write(header); buffer.Write(payload)
BufferBytes(h, p) == h \o p

Return(fn, bytes, cnt, err) ==
    /\ results' = Append(results, [fn |-> fn, bytes |-> bytes, n |-> cnt, err |-> err,
                                   in |-> callIn, out |-> stream'])
    /\ pc' = "idle"
    /\ header' = <<>>
    /\ payload' = <<>>
    /\ n' = 0

CallReceiveStartupMessage ==
    /\ pc = "idle"
    /\ Len(results) < MaxCalls
    /\ pc' = "rsm_header"
    /\ callIn' = stream
    /\ UNCHANGED <<stream, peerClosed, connClosed, header, payload, n, results, connectVars>>

CallReceive ==
    /\ pc = "idle"
    /\ Len(results) < MaxCalls
    /\ pc' = "rcv_header"
    /\ callIn' = stream
    /\ UNCHANGED <<stream, peerClosed, connClosed, header, payload, n, results, connectVars>>

\* io.ReadFull(connection, header), one conn.Read per step; with the header
\* complete, the payload length is decoded and the payload buffer made.  make
\* panics on a negative length; io.ReadFull of an empty buffer returns (0, nil)
\* without reading.
RsmReadHeader ==
    /\ pc = "rsm_header"
    /\ \E o \in ConnRead(4 - Len(header)) :
         LET h == header \o Take(stream, o.nn) IN
         /\ stream' = Drop(stream, o.nn)
         /\ IF o.err # "nil"
            THEN Return("startup", <<>>, StartupErrCount(Len(h)), ReadFullErr(Len(h), o.err))
            ELSE IF Len(h) < 4
            THEN /\ header' = h
                 /\ UNCHANGED <<pc, payload, n, results>>
            ELSE IF StartupPayloadLen(h) < 0
            THEN /\ pc' = "panic"
                 /\ header' = h
                 /\ n' = StartupPayloadLen(h)
                 /\ UNCHANGED <<payload, results>>
            ELSE IF ReadFullReturnsAtOnce(StartupPayloadLen(h))
            THEN Return("startup", BufferBytes(h, <<>>), Len(BufferBytes(h, <<>>)), "nil")
            ELSE /\ pc' = "rsm_payload"
                 /\ header' = h
                 /\ n' = StartupPayloadLen(h)
                 /\ UNCHANGED <<payload, results>>
    /\ UNCHANGED <<peerClosed, connClosed, callIn, connectVars>>

\* io.ReadFull(connection, payload), one conn.Read per step
RsmReadPayload ==
    /\ pc = "rsm_payload"
    /\ \E o \in ConnRead(n - Len(payload)) :
         LET p == payload \o Take(stream, o.nn) IN
         /\ stream' = Drop(stream, o.nn)
         /\ IF o.err # "nil"
            THEN Return("startup", <<>>, StartupErrCount(Len(p)), ReadFullErr(Len(p), o.err))
            ELSE IF Len(p) < n
            THEN /\ payload' = p
                 /\ UNCHANGED <<pc, header, n, results>>
            ELSE Return("startup", BufferBytes(header, p), Len(BufferBytes(header, p)), "nil")
    /\ UNCHANGED <<peerClosed, connClosed, callIn, connectVars>>

RcvReadHeader ==
    /\ pc = "rcv_header"
    /\ \E o \in ConnRead(5 - Len(header)) :
         LET h == header \o Take(stream, o.nn) IN
         /\ stream' = Drop(stream, o.nn)
         /\ IF o.err # "nil"
            THEN Return("regular", <<>>, ReceiveHeaderErrCount(Len(h)), ReadFullErr(Len(h), o.err))
            ELSE IF Len(h) < 5
            THEN /\ header' = h
                 /\ UNCHANGED <<pc, payload, n, results>>
            ELSE IF ReceivePayloadLen(h) < 0
            THEN /\ pc' = "panic"
                 /\ header' = h
                 /\ n' = ReceivePayloadLen(h)
                 /\ UNCHANGED <<payload, results>>
            ELSE IF ReadFullReturnsAtOnce(ReceivePayloadLen(h))
            THEN Return("regular", BufferBytes(h, <<>>), Len(BufferBytes(h, <<>>)), "nil")
            ELSE /\ pc' = "rcv_payload"
                 /\ header' = h
                 /\ n' = ReceivePayloadLen(h)
                 /\ UNCHANGED <<payload, results>>
    /\ UNCHANGED <<peerClosed, connClosed, callIn, connectVars>>

RcvReadPayload ==
    /\ pc = "rcv_payload"
    /\ \E o \in ConnRead(n - Len(payload)) :
         LET p == payload \o Take(stream, o.nn) IN
         /\ stream' = Drop(stream, o.nn)
         /\ IF o.err # "nil"
            THEN Return("regular", <<>>, ReceivePayloadErrCount(Len(p)), ReadFullErr(Len(p), o.err))
            ELSE IF Len(p) < n
            THEN /\ payload' = p
                 /\ UNCHANGED <<pc, header, n, results>>
            ELSE Return("regular", BufferBytes(header, p), Len(BufferBytes(header, p)), "nil")
    /\ UNCHANGED <<peerClosed, connClosed, callIn, connectVars>>

\* the peer closes its side: what it sent stays readable, then end of file
PeerClose ==
    /\ ~peerClosed
    /\ pc # "panic"
    /\ peerClosed' = TRUE
    /\ UNCHANGED <<stream, connClosed, pc, frameVars, connectVars>>

Init ==
    /\ stream \in Streams
    /\ peerClosed = FALSE
    /\ connClosed = FALSE
    /\ pc = "idle"
    /\ header = <<>>
    /\ payload = <<>>
    /\ n = 0
    /\ callIn = <<>>
    /\ results = <<>>
    /\ sslEnable = FALSE
    /\ dialed = TRUE
    /\ sent = <<>>
    /\ response = <<>>
    /\ upgrade = "none"
    /\ cret = NoReturn
    /\ trace = <<>>
    /\ after = "none"

Next ==
    \/ CallReceiveStartupMessage
    \/ CallReceive
    \/ RsmReadHeader
    \/ RsmReadPayload
    \/ RcvReadHeader
    \/ RcvReadPayload
    \/ PeerClose

Spec == Init /\ [][Next]_vars

\* ---- Connect ----

\* protocol.SSLRequestCode
SSLRequestCode == 80877103

\* len(response) after response := make([]byte, 4096)
RespLen == 4096

\* faulty variant: the length field counts the code only, not itself
SSLRequestMessage_LengthOfCode == PutUint32(4) \o PutUint32(SSLRequestCode)

\* message.WriteInt32(8); message.WriteInt32(protocol.SSLRequestCode); message.Bytes()
SSLRequestMessage == PutUint32(8) \o PutUint32(SSLRequestCode)

\* response[i] after connection.Read(response) stored the bytes resp at the
\* front of the zeroed buffer
ResponseAt(resp, i) == IF i < Len(resp) THEN resp[i + 1] ELSE 0

\* faulty variant: the test looks at the bytes read, not at the buffer's length
BackendRejects_NeedsData(resp) == Len(resp) > 0 /\ resp[1] # 83

\* faulty variant: only an 'N' answer counts as a rejection
BackendRejects_OnlyOnN(resp) == ResponseAt(resp, 0) = 78

\* len(response) > 0 && response[0] != 'S'
BackendRejects(resp) == RespLen > 0 /\ ResponseAt(resp, 0) # 83

\* connection.Read(response): as ConnRead, and a Read may also return (0, nil)
ConnReadAny(want) ==
    ConnRead(want) \cup (IF connClosed THEN {} ELSE {[nn |-> 0, err |-> "nil"]})

\* what the backend may answer
RespBytes == {83, 78, 69, 0}

Responses ==
    UNION {[1..k -> RespBytes] : k \in 0..MaxResp} \cup {<<83, 0, 0, 0>>}

\* faulty variant: the error is logged and dropped, the result carries none
ConnectReturn_SwallowsError(conn, err) ==
    /\ cret' = [conn |-> conn, err |-> "nil"]
    /\ pc' = "c_done"

ConnectReturn(conn, err) ==
    /\ cret' = [conn |-> conn, err |-> err]
    /\ pc' = "c_done"

\* faulty variant: the configuration is not consulted, SSL is always negotiated
ConnectDial_AlwaysSSL ==
    /\ pc = "c_start"
    /\ \E ok \in BOOLEAN :
         IF ~ok
         THEN /\ trace' = Append(trace, "dial_err")
              /\ ConnectReturn("nil", "dial")
              /\ UNCHANGED dialed
         ELSE /\ dialed' = TRUE
              /\ trace' = Append(trace, "dial")
              /\ pc' = "c_write"
              /\ UNCHANGED cret
    /\ UNCHANGED <<connVars, frameVars, sslEnable, sent, response, upgrade, after>>

\* net.Dial("tcp", host); without SSL the dialed connection is returned as it is
ConnectDial ==
    /\ pc = "c_start"
    /\ \E ok \in BOOLEAN :
         IF ~ok
         THEN /\ trace' = Append(trace, "dial_err")
              /\ ConnectReturn("nil", "dial")
              /\ UNCHANGED dialed
         ELSE /\ dialed' = TRUE
              /\ trace' = Append(trace, "dial")
              /\ IF sslEnable
                 THEN pc' = "c_write" /\ UNCHANGED cret
                 ELSE ConnectReturn("conn", "nil")
    /\ UNCHANGED <<connVars, frameVars, sslEnable, sent, response, upgrade, after>>

\* faulty variant: a failed write is logged and the request is sent again
ConnectWrite_Retries ==
    /\ pc = "c_write"
    /\ \E ok \in BOOLEAN :
         IF ~ok
         THEN /\ trace' = Append(trace, "write_err")
              /\ UNCHANGED <<sent, pc, cret>>
         ELSE /\ sent' = sent \o SSLRequestMessage
              /\ trace' = Append(trace, "write")
              /\ pc' = "c_read"
              /\ UNCHANGED cret
    /\ UNCHANGED <<connVars, frameVars, sslEnable, dialed, response, upgrade, after>>

\* connection.Write(message.Bytes())
ConnectWrite ==
    /\ pc = "c_write"
    /\ \E ok \in BOOLEAN :
         IF ~ok
         THEN /\ trace' = Append(trace, "write_err")
              /\ ConnectReturn("nil", "write")
              /\ UNCHANGED sent
         ELSE /\ sent' = sent \o SSLRequestMessage
              /\ trace' = Append(trace, "write")
              /\ pc' = "c_read"
              /\ UNCHANGED cret
    /\ UNCHANGED <<connVars, frameVars, sslEnable, dialed, response, upgrade, after>>

\* connection.Read(response) and the test of response[0]
ConnectRead ==
    /\ pc = "c_read"
    /\ \E o \in ConnReadAny(RespLen) :
         /\ stream' = Drop(stream, o.nn)
         /\ IF o.err # "nil"
            THEN /\ trace' = Append(trace, "read_err")
                 /\ ConnectReturn("nil", o.err)
                 /\ UNCHANGED response
            ELSE /\ response' = Take(stream, o.nn)
                 /\ trace' = Append(trace, "read")
                 /\ pc' = IF BackendRejects(response') THEN "c_close" ELSE "c_upgrade"
                 /\ UNCHANGED cret
    /\ UNCHANGED <<peerClosed, connClosed, frameVars, sslEnable, dialed, sent, upgrade, after>>

\* connection.Close() and, past the if, return connection, nil
ConnectClose ==
    /\ pc = "c_close"
    /\ connClosed' = TRUE
    /\ trace' = Append(trace, "close")
    /\ ConnectReturn("conn", "nil")
    /\ UNCHANGED <<stream, peerClosed, frameVars, sslEnable, dialed, sent, response, upgrade, after>>

\* UpgradeClientConnection(host, connection): the stream it hands back and
\* whether the security handshake on it succeeded; it returns no error value
UpgradeClientConnection ==
    {[conn |-> "tls", state |-> "ok"], [conn |-> "tls", state |-> "failed"]}

\* faulty variant: the upgraded stream is not stored, the plaintext one is returned
ConnectUpgrade_KeepsPlain ==
    /\ pc = "c_upgrade"
    /\ \E u \in UpgradeClientConnection : upgrade' = u.state
    /\ trace' = Append(trace, "upgrade")
    /\ cret' = [conn |-> "conn", err |-> "nil"]
    /\ pc' = "c_done"
    /\ UNCHANGED <<connVars, frameVars, sslEnable, dialed, sent, response, after>>

\* connection = UpgradeClientConnection(host, connection); return connection, nil
ConnectUpgrade ==
    /\ pc = "c_upgrade"
    /\ \E u \in UpgradeClientConnection :
         /\ upgrade' = u.state
         /\ ConnectReturn(u.conn, "nil")
    /\ trace' = Append(trace, "upgrade")
    /\ UNCHANGED <<connVars, frameVars, sslEnable, dialed, sent, response, after>>

\* the caller reads once from the plaintext connection Connect returned
CallerRead ==
    /\ pc = "c_done"
    /\ cret.conn = "conn"
    /\ after = "none"
    /\ \E o \in ConnRead(1) :
         /\ stream' = Drop(stream, o.nn)
         /\ after' = o.err
    /\ UNCHANGED <<peerClosed, connClosed, pc, frameVars, sslEnable, dialed, sent,
                   response, upgrade, cret, trace>>

InitConnect ==
    /\ stream \in Responses
    /\ peerClosed = FALSE
    /\ connClosed = FALSE
    /\ pc = "c_start"
    /\ header = <<>>
    /\ payload = <<>>
    /\ n = 0
    /\ callIn = <<>>
    /\ results = <<>>
    /\ sslEnable \in BOOLEAN
    /\ dialed = FALSE
    /\ sent = <<>>
    /\ response = <<>>
    /\ upgrade = "none"
    /\ cret = NoReturn
    /\ trace = <<>>
    /\ after = "none"

NextConnect ==
    \/ ConnectDial
    \/ ConnectWrite
    \/ ConnectRead
    \/ ConnectClose
    \/ ConnectUpgrade
    \/ CallerRead
    \/ PeerClose

SpecConnect == InitConnect /\ [][NextConnect]_vars

\* ---- the backend's end of the connection Connect opened ----

\* what the client sends after the SSL request: nothing yet, or the start of
\* its handshake record
ClientFollowUps == {<<>>, <<22>>, <<22, 3>>, <<22, 3, 1>>}

\* The request has been written and travels to the backend.  From here on
\* stream, peerClosed and the framing variables describe the backend's end of
\* the connection, on which the backend reads its first message.
BackendAccepts ==
    /\ pc = "c_read"
    /\ \E more \in ClientFollowUps : stream' = sent \o more
    /\ pc' = "idle"
    /\ UNCHANGED <<peerClosed, connClosed, frameVars, connectVars>>

InitBackend ==
    /\ InitConnect
    /\ stream = <<>>

NextBackend ==
    \/ ConnectDial
    \/ ConnectWrite
    \/ BackendAccepts
    \/ CallReceiveStartupMessage
    \/ RsmReadHeader
    \/ RsmReadPayload
    \/ PeerClose

SpecBackend == InitBackend /\ [][NextBackend]_vars

\* ---- a reader whose connection is closed by another goroutine ----

Reading == {"rsm_header", "rsm_payload", "rcv_header", "rcv_payload"}

\* connection.Close() called in another goroutine, at any moment
CloseConn ==
    /\ ~connClosed
    /\ pc # "panic"
    /\ connClosed' = TRUE
    /\ UNCHANGED <<stream, peerClosed, pc, frameVars, connectVars>>

\* the connection carries one message, whole or cut short
CancelStreams ==
    UNION {{Take(w, cut) : cut \in 0..Len(w)} : w \in StartupMsgs \cup RegularMsgs}

InitCancel ==
    /\ Init
    /\ stream \in CancelStreams

NextCancel ==
    \/ Next
    \/ CloseConn

\* a Read that can return does return: the reader's goroutine is scheduled
ReaderFairness ==
    /\ WF_vars(RsmReadHeader)
    /\ WF_vars(RsmReadPayload)
    /\ WF_vars(RcvReadHeader)
    /\ WF_vars(RcvReadPayload)

SpecCancel == InitCancel /\ [][NextCancel]_vars /\ ReaderFairness

\* ---- properties of the framing readers ----

IsPrefix(m, s) == Len(m) <= Len(s) /\ Take(s, Len(m)) = m

Calls == 1..Len(results)

Failed(r) == r.err # "nil"

\* the payloads p for which the encoding of a startup message starts the bytes s
StartupPayloadsAt(s) ==
    {SubSeq(s, 5, 4 + k) : k \in {j \in 0..(Len(s) - 4) : IsPrefix(StartupMessage(SubSeq(s, 5, 4 + j)), s)}}

\* the payloads p for which the encoding of a regular message starts the bytes s
RegularPayloadsAt(s) ==
    {SubSeq(s, 6, 5 + k) : k \in {j \in 0..(Len(s) - 5) : IsPrefix(RegularMessage(s[1], SubSeq(s, 6, 5 + j)), s)}}

\* C1: a ReceiveStartupMessage call made when the next bytes of the stream are
\* a well-formed startup message of length field L >= 4 returns no error,
\* exactly those L bytes, and the length L.
C1_StartupReturnsMessage ==
    \A i \in Calls :
        results[i].fn = "startup" =>
            \A p \in StartupPayloadsAt(results[i].in) :
                /\ results[i].err = "nil"
                /\ results[i].bytes = StartupMessage(p)
                /\ results[i].n = Len(p) + 4

C1_Witness ==
    \E i \in Calls :
        /\ results[i].fn = "startup"
        /\ StartupPayloadsAt(results[i].in) # {}
        /\ results[i].err = "nil"
        /\ Len(results[i].bytes) > 4
        /\ results[i].out # <<>>

\* C2: a Receive call made when the next bytes of the stream are a well-formed
\* regular message (type byte, length field L >= 4, L-4 payload bytes) returns
\* no error, exactly those 1+L bytes, of which the last L-4 are the payload,
\* and the length 5 + (L-4).
C2_ReceiveReturnsMessage ==
    \A i \in Calls :
        results[i].fn = "regular" =>
            \A p \in RegularPayloadsAt(results[i].in) :
                /\ results[i].err = "nil"
                /\ results[i].bytes = RegularMessage(results[i].in[1], p)
                /\ Drop(results[i].bytes, 5) = p
                /\ results[i].n = 5 + Len(p)

C2_Witness ==
    \E i \in Calls :
        /\ results[i].fn = "regular"
        /\ RegularPayloadsAt(results[i].in) # {}
        /\ results[i].err = "nil"
        /\ Len(results[i].bytes) > 5
        /\ results[i].out # <<>>

TotalLen(ms, j) == Len(Concat(SubSeq(ms, 1, j)))

\* C3: framing neither over-reads nor under-reads.  Every successful call
\* consumed exactly the bytes it returned (L for a startup message, 1+L for a
\* regular one) and the next call starts where it stopped; so when the stream
\* starts with one startup message followed by k regular messages, one
\* ReceiveStartupMessage call followed by Receive calls returns these messages
\* in order, each once, and leaves every later message unread.
C3_FramingExact ==
    /\ \A i \in Calls :
          /\ i > 1 => results[i].in = results[i - 1].out
          /\ ~Failed(results[i]) =>
                /\ results[i].in = results[i].bytes \o results[i].out
                /\ results[i].fn = "startup" =>
                      Len(results[i].bytes) = Uint32(results[i].bytes)
                /\ results[i].fn = "regular" =>
                      Len(results[i].bytes) = 1 + Uint32(Drop(results[i].bytes, 1))
    /\ \A s \in StartupMsgs, r \in RegularLists :
          ( /\ results # <<>>
            /\ results[1].fn = "startup"
            /\ \A i \in Calls : i > 1 => results[i].fn = "regular"
            /\ IsPrefix(s \o Concat(r), results[1].in) )
          => \A i \in Calls :
                i <= 1 + Len(r) =>
                    /\ results[i].err = "nil"
                    /\ results[i].bytes = (<<s>> \o r)[i]
                    /\ results[i].out = Drop(results[1].in, TotalLen(<<s>> \o r, i))

C3_Witness ==
    /\ Len(results) = 3
    /\ results[1].fn = "startup"
    /\ results[2].fn = "regular"
    /\ results[3].fn = "regular"
    /\ \A i \in Calls : results[i].err = "nil"
    /\ results[1].bytes \in StartupMsgs
    /\ results[2].bytes \in RegularMsgs
    /\ results[3].bytes \in RegularMsgs
    /\ results[2].bytes # results[3].bytes
    /\ results[1].in = results[1].bytes \o results[2].bytes \o results[3].bytes \o results[3].out
    /\ results[3].out # <<>>

\* C4 (as claimed): with a length field L < 4 the size handed to the payload
\* allocation and read is never negative and the call does not crash: it
\* returns the header alone.
C4_ShortLengthReadsNothing ==
    /\ pc # "panic"
    /\ n >= 0
    /\ \A i \in Calls :
          /\ (results[i].fn = "startup" /\ Len(results[i].in) >= 4
                /\ Uint32(results[i].in) < 4)
             => (results[i].err = "nil" /\ results[i].bytes = Take(results[i].in, 4))
          /\ (results[i].fn = "regular" /\ Len(results[i].in) >= 5
                /\ Uint32(Drop(results[i].in, 1)) < 4)
             => (results[i].err = "nil" /\ results[i].bytes = Take(results[i].in, 5))

\* C5: with a length field of exactly 4, ReceiveStartupMessage returns the 4
\* header bytes, length 4 and no error, and Receive returns the 5 header
\* bytes, length 5 and no error, also when nothing follows the header and the
\* peer has closed.
C5_ZeroPayload ==
    \A i \in Calls :
        /\ (results[i].fn = "startup" /\ IsPrefix(PutUint32(4), results[i].in))
           => /\ results[i].err = "nil"
              /\ results[i].bytes = Take(results[i].in, 4)
              /\ results[i].n = 4
        /\ (results[i].fn = "regular" /\ Len(results[i].in) >= 5
              /\ IsPrefix(PutUint32(4), Drop(results[i].in, 1)))
           => /\ results[i].err = "nil"
              /\ results[i].bytes = Take(results[i].in, 5)
              /\ results[i].n = 5

C5_Witness ==
    /\ peerClosed
    /\ stream = <<>>
    /\ pc = "idle"
    /\ Len(results) = 2
    /\ results[1].fn = "startup" /\ results[1].err = "nil" /\ results[1].n = 4
    /\ results[2].fn = "regular" /\ results[2].err = "nil" /\ results[2].n = 5
    /\ results[2].out = <<>>

\* a Receive call that got its whole header, with a length field >= 4, and failed
PayloadReadFailed(r) ==
    /\ r.fn = "regular"
    /\ Failed(r)
    /\ Len(r.in) >= 5
    /\ Uint32(Drop(r.in, 1)) >= 4

\* C6 (as claimed): when Receive's payload read fails, the count returned is
\* the number of bytes actually read so far, i.e. delivered by the stream to
\* the call.
C6_CountIsBytesRead ==
    \A i \in Calls :
        PayloadReadFailed(results[i]) =>
            /\ results[i].bytes = <<>>
            /\ results[i].n = Len(results[i].in) - Len(results[i].out)

\* C6 (amended): when Receive's payload read fails after p of the L-4 payload
\* bytes, Receive returns an error, no message bytes, and the count p: the
\* payload bytes read, without the 5 header bytes read before them (0 when
\* the stream closes right after the header).
C6_CountIsPayloadBytesRead ==
    \A i \in Calls :
        PayloadReadFailed(results[i]) =>
            /\ results[i].bytes = <<>>
            /\ results[i].out = <<>>
            /\ results[i].n = Len(results[i].in) - 5
            /\ results[i].n < Uint32(Drop(results[i].in, 1)) - 4
            /\ results[i].err = IF results[i].n = 0 THEN "EOF" ELSE "ErrUnexpectedEOF"

C6_Witness ==
    \E i \in Calls :
        /\ PayloadReadFailed(results[i])
        /\ results[i].n >= 1
        /\ results[i].err = "ErrUnexpectedEOF"

\* C7 (as claimed): when the stream closes before ReceiveStartupMessage has
\* all L bytes, the call returns an error, no message, and the count of the
\* bytes the stream delivered to it.
C7_StartupReportsPartialCount ==
    \A i \in Calls :
        (results[i].fn = "startup" /\ Failed(results[i])) =>
            /\ results[i].err \in {"EOF", "ErrUnexpectedEOF"}
            /\ results[i].bytes = <<>>
            /\ results[i].n = Len(results[i].in) - Len(results[i].out)

\* ---- properties of Connect ----

Steps == {trace[i] : i \in 1..Len(trace)}

\* C8: with SSL required and the request written and the response read, the
\* first byte of the response decides alone: 'S' means allowed, the upgrade is
\* invoked on the connection and the connection is not closed; any other
\* first byte means rejected, the plaintext connection is closed, the upgrade
\* is not invoked, and a later read on that connection fails as closed.
C8_FirstByteDecides ==
    (sslEnable /\ "read" \in Steps /\ response # <<>>) =>
        IF response[1] = 83
        THEN /\ "close" \notin Steps
             /\ ~connClosed
             /\ pc \in {"c_upgrade", "c_done"}
             /\ pc = "c_done" => ("upgrade" \in Steps /\ upgrade # "none" /\ cret.conn = "tls")
        ELSE /\ "upgrade" \notin Steps
             /\ upgrade = "none"
             /\ pc \in {"c_close", "c_done"}
             /\ pc = "c_done" => /\ "close" \in Steps
                                 /\ connClosed
                                 /\ after \in {"none", "closed"}

C8_Witness ==
    /\ sslEnable
    /\ pc = "c_done"
    /\ response = <<78>>
    /\ trace = <<"dial", "write", "read", "close">>
    /\ connClosed
    /\ after = "closed"

\* the backend answered the SSL request with a first byte other than 'S'
Rejected == "read" \in Steps /\ response # <<>> /\ response[1] # 83

\* C9 (as claimed): when the backend rejects SSL, Connect reports a failure
\* and returns no handle; it never returns a closed connection with no error.
C9_RejectionIsFailure ==
    (pc = "c_done" /\ sslEnable /\ Rejected) =>
        /\ ~(cret.err = "nil" /\ cret.conn = "conn" /\ connClosed)
        /\ cret.err # "nil"
        /\ cret.conn = "nil"

\* how a finished Connect ended
Ending ==
    IF Steps \cap {"dial_err", "write_err", "read_err"} # {} THEN "io_error"
    ELSE IF Rejected THEN "rejected"
    ELSE IF "upgrade" \in Steps THEN "upgraded"
    ELSE "plain"

\* whether the handle and the error Connect returned are non-nil
Shape == <<cret.conn # "nil", cret.err # "nil">>

\* C10 (as claimed): the result of Connect tells the endings apart: an I/O
\* error is (no handle, error), an upgraded connection is (handle, no error),
\* and a rejection by the backend has neither of these two shapes.
C10_EndingsDistinct ==
    pc = "c_done" =>
        /\ Ending = "io_error" => Shape = <<FALSE, TRUE>>
        /\ Ending = "upgraded" => Shape = <<TRUE, FALSE>>
        /\ Ending = "rejected" => Shape \notin {<<FALSE, TRUE>>, <<TRUE, FALSE>>}

\* C11 (as claimed): after an allowed answer Connect succeeds only if the
\* upgrade succeeds: when the upgrade fails Connect returns an error and no
\* connection, neither the upgraded nor the plaintext one.
C11_UpgradeFailureIsFailure ==
    (pc = "c_done" /\ upgrade = "failed") => (cret.err # "nil" /\ cret.conn = "nil")

\* C12: every I/O failure in Connect ends the call at once with (nil, error)
\* and nothing after it: a failed dial with no write or read, a failed write
\* with no read, close or upgrade, a failed read with no close or upgrade; no
\* operation is tried twice.
C12_IOFailureIsFatal ==
    /\ "dial_err" \in Steps =>
          /\ trace = <<"dial_err">>
          /\ sent = <<>> /\ response = <<>> /\ ~dialed
    /\ "write_err" \in Steps =>
          /\ trace = <<"dial", "write_err">>
          /\ sent = <<>> /\ response = <<>>
    /\ "read_err" \in Steps =>
          /\ trace = <<"dial", "write", "read_err">>
          /\ sent = SSLRequestMessage /\ response = <<>>
    /\ Steps \cap {"dial_err", "write_err", "read_err"} # {} =>
          /\ pc = "c_done"
          /\ cret.conn = "nil"
          /\ cret.err \notin {"nil", "none"}
          /\ upgrade = "none"
          /\ after = "none"
          /\ "close" \notin Steps /\ "upgrade" \notin Steps

C12_Witness ==
    /\ pc = "c_done"
    /\ trace = <<"dial", "write", "read_err">>
    /\ cret = [conn |-> "nil", err |-> "EOF"]

\* C13: the SSL request Connect writes is exactly 8 bytes, the big-endian
\* length 8 and then the 4-byte request code, and ReceiveStartupMessage on the
\* backend's end returns for it no error, the length 8 and a payload equal to
\* the request code.
C13_SSLRequestRoundTrip ==
    /\ sent # <<>> =>
          /\ Len(sent) = 8
          /\ Uint32(Take(sent, 4)) = 8
          /\ Uint32(Drop(sent, 4)) = SSLRequestCode
    /\ results # <<>> =>
          /\ IsPrefix(sent, results[1].in)
          /\ results[1].err = "nil"
          /\ results[1].n = 8
          /\ results[1].bytes = sent
          /\ Drop(results[1].bytes, 4) = PutUint32(SSLRequestCode)
          /\ Uint32(Drop(results[1].bytes, 4)) = SSLRequestCode
          /\ results[1].in = results[1].bytes \o results[1].out

C13_Witness ==
    /\ results # <<>>
    /\ results[1].fn = "startup"
    /\ results[1].err = "nil"
    /\ results[1].n = 8
    /\ results[1].out = <<22, 3>>
    /\ trace = <<"dial", "write">>

\* the step logs of Connect with SSL required, each with the place Connect is at
NegotiationRuns ==
    {<< <<>>, "c_start" >>,
     << <<"dial_err">>, "c_done" >>,
     << <<"dial">>, "c_write" >>,
     << <<"dial", "write_err">>, "c_done" >>,
     << <<"dial", "write">>, "c_read" >>,
     << <<"dial", "write", "read_err">>, "c_done" >>,
     << <<"dial", "write", "read">>, "c_close" >>,
     << <<"dial", "write", "read">>, "c_upgrade" >>,
     << <<"dial", "write", "read", "close">>, "c_done" >>,
     << <<"dial", "write", "read", "upgrade">>, "c_done" >>}

\* C14: with SSL required Connect dials, then writes the SSL request once,
\* then reads the answer once, then does exactly one of close and upgrade; the
\* request is the first traffic on the connection, the upgrade is invoked only
\* after an answer starting with 'S' has been read, and nothing is done twice.
C14_NegotiationOrder ==
    sslEnable =>
        /\ <<trace, pc>> \in NegotiationRuns
        /\ sent = IF Steps \cap {"write", "read", "close", "upgrade"} # {}
                  THEN SSLRequestMessage ELSE <<>>
        /\ "read" \notin Steps => response = <<>>
        /\ "upgrade" \in Steps => (response # <<>> /\ response[1] = 83)
        /\ (connClosed \/ after # "none") => "close" \in Steps
        /\ upgrade # "none" <=> "upgrade" \in Steps

C14_Witness ==
    /\ sslEnable
    /\ pc = "c_done"
    /\ trace = <<"dial", "write", "read", "upgrade">>
    /\ response = <<83, 0, 0, 0>>
    /\ sent = SSLRequestMessage

\* C15: when the read of the answer succeeds with zero bytes, the outcome is
\* rejected: the connection is closed and the upgrade is not invoked.
C15_EmptyResponseRejected ==
    (sslEnable /\ "read" \in Steps /\ response = <<>>) =>
        /\ pc \in {"c_close", "c_done"}
        /\ "upgrade" \notin Steps
        /\ upgrade = "none"
        /\ pc = "c_done" => ("close" \in Steps /\ connClosed /\ cret.conn # "tls")

C15_Witness ==
    /\ sslEnable
    /\ pc = "c_done"
    /\ response = <<>>
    /\ trace = <<"dial", "write", "read", "close">>
    /\ connClosed

\* C16: the handle Connect returns is never half-upgraded: close and upgrade
\* exclude each other in one call, and once the upgrade was invoked the handle
\* returned is the stream the upgrade produced, never the plaintext one.
C16_NeverHalfUpgraded ==
    /\ ~("close" \in Steps /\ "upgrade" \in Steps)
    /\ "upgrade" \in Steps =>
          /\ pc = "c_done"
          /\ cret.conn = "tls"
          /\ ~connClosed
          /\ after = "none"
    /\ "close" \in Steps => (upgrade = "none" /\ cret.conn # "tls")

C16_Witness ==
    /\ pc = "c_done"
    /\ "upgrade" \in Steps
    /\ upgrade = "ok"
    /\ cret = [conn |-> "tls", err |-> "nil"]

\* C17: when SSL is not required and the dial succeeds, Connect does nothing
\* to the connection, no write, read, close or upgrade, and returns the dialed
\* plaintext connection with no error.
C17_PlainConnectionUntouched ==
    /\ [](~sslEnable =>
            /\ trace \in {<<>>, <<"dial">>, <<"dial_err">>}
            /\ sent = <<>>
            /\ response = <<>>
            /\ ~connClosed
            /\ upgrade = "none"
            /\ trace = <<"dial">> => (pc = "c_done" /\ dialed
                                       /\ cret = [conn |-> "conn", err |-> "nil"]))
    /\ [][(~sslEnable /\ pc # "c_done") =>
            UNCHANGED <<stream, connClosed, sent, response, upgrade>>]_vars

C17_Witness ==
    /\ ~sslEnable
    /\ pc = "c_done"
    /\ cret = [conn |-> "conn", err |-> "nil"]
    /\ stream # <<>>
    /\ after = "none"

\* C18 (as claimed): when Connect returns an error after the dial succeeded,
\* it has closed the dialed connection before returning.
C18_NoLeakOnFailure ==
    (pc = "c_done" /\ dialed /\ cret.err \notin {"nil", "none"}) => connClosed

LastResult == results[Len(results)]

\* C19: a Receive or ReceiveStartupMessage call waiting for header or payload
\* bytes does not hang once the connection is closed from another goroutine:
\* its next Read fails, and the call returns the closed-connection error and
\* no message, wherever the close falls among the reads.
C19_CloseEndsBlockedRead ==
    /\ [][(connClosed /\ pc \in Reading /\ pc' # pc) =>
            /\ pc' = "idle"
            /\ results' # results
            /\ results'[Len(results')].err = "closed"
            /\ results'[Len(results')].bytes = <<>>]_vars
    /\ (connClosed /\ pc \in Reading) ~>
            (pc = "idle" /\ results # <<>> /\ LastResult.err = "closed"
                /\ LastResult.bytes = <<>>)

\* a Receive call that had its header, was waiting for payload on a silent
\* connection, and was ended by the close
C19_Witness ==
    /\ connClosed
    /\ ~peerClosed
    /\ pc = "idle"
    /\ results # <<>>
    /\ LastResult.fn = "regular"
    /\ LastResult.err = "closed"
    /\ LastResult.bytes = <<>>
    /\ Len(LastResult.in) >= 5
    /\ LastResult.out = <<>>

====
